---- MODULE Spec2Model ----
(***************************************************************************)
(* SingleLinkedList<Type> (single-linked-list.h) as a state machine over   *)
(* an explicit heap.  Node storage is a finite set of addresses; every     *)
(* `new Node` either returns an address that is not allocated or throws.   *)
(* Each public operation is one action; the temporaries that the copy      *)
(* operations build on the stack are list objects of their own (TempA,     *)
(* TempB) that are constructed and destroyed inside the action.            *)
(* A call records what was called and the state it was called in (last,    *)
(* pre); Forget drops that record before the next call.                    *)
(***************************************************************************)
EXTENDS Integers, Sequences, FiniteSets, TLC

\* ---- bounds ----
MaxNodes == 4      \* heap capacity: number of Node addresses
MaxVal == 2        \* element values are 1..MaxVal
MaxLists == 2      \* list objects the client holds
MaxInitLen == 3    \* longest initializer list

NULL == 0
Nodes == 1..MaxNodes
Values == 1..MaxVal
Lists == 1..MaxLists
\* stack temporaries: operator='s `temp` and the copy constructor's `temp`
TempA == MaxLists + 1
TempB == MaxLists + 2
ListIds == 1..(MaxLists + 2)

\* address of the head_ member (the sentinel) of list object l
HeadOf(l) == 0 - l
Heads == {HeadOf(l) : l \in ListIds}
Addr == Heads \cup Nodes

VARIABLES
    next_node,   \* Node::next_node of every address (sentinels and heap nodes)
    value,       \* Node::value of every heap node
    allocated,   \* heap nodes obtained from new and not yet deleted
    size_,       \* SingleLinkedList::size_ of every list object
    live,        \* list objects constructed and not destroyed
    dfree,       \* a delete was applied to storage that was not allocated
    last,        \* the call that has just returned ("idle": none since the record was dropped)
    pre,         \* the program state when that call was made
    pushed       \* the current run of successful PushFront calls on an empty list

vars == <<next_node, value, allocated, size_, live, dfree, last, pre, pushed>>

\* the program state as one value, so that methods are functions on it
Cur == [next |-> next_node, val |-> value, alloc |-> allocated,
        size |-> size_, live |-> live, dfree |-> dfree]

EmptyHeap == [next |-> [a \in Addr |-> NULL], val |-> [n \in Nodes |-> 0],
              alloc |-> {}, size |-> [l \in ListIds |-> 0],
              live |-> [l \in ListIds |-> FALSE], dfree |-> FALSE]

\* ---- storage ----

\* new Node(val, next) placed at address a
NewNode(H, a, v, nx) ==
    [H EXCEPT !.alloc = @ \cup {a}, !.val[a] = v, !.next[a] = nx]

\* delete p; freed storage is never read again and is kept scrubbed
DeleteNode(H, p) ==
    IF p = NULL THEN H
    ELSE IF p \notin H.alloc THEN [H EXCEPT !.dfree = TRUE]
    ELSE [H EXCEPT !.alloc = @ \ {p}, !.val[p] = 0, !.next[p] = NULL]

\* what one `new Node` can do: return a free address, or throw (NULL)
AllocChoices(H) == (Nodes \ H.alloc) \cup {NULL}

\* ---- traversal ----

\* begin(): head_.next_node
Begin(H, l) == H.next[HeadOf(l)]

\* the pointer reached from p by n increments (it = it->next_node); the
\* walk is cut at a null pointer, which C1_SizeMatchesChain shows no live
\* list ever lets it meet before the n-th step
RECURSIVE Walk(_, _, _)
Walk(H, p, n) ==
    IF n = 0 \/ p = NULL THEN p ELSE Walk(H, H.next[p], n - 1)

\* end(): size_ steps from head_.next_node
End(H, l) == Walk(H, Begin(H, l), H.size[l])

\* the loop of end(), cend() and the const end():
\*   for (size_t i = 0; i < size_; ++i) it_end = it_end->next_node;
\* links counts the next_node links of the chain it has read; null tells
\* that it_end was null when the loop went to read through it
RECURSIVE EndLoop(_, _, _, _)
EndLoop(H, it_end, i, n) ==
    IF i >= n THEN [it |-> it_end, links |-> i, null |-> FALSE]
    ELSE IF it_end = NULL THEN [it |-> NULL, links |-> i, null |-> TRUE]
         ELSE EndLoop(H, H.next[it_end], i + 1, n)

\* one run of end(): it_end starts at head_.next_node
EndRun(H, l) == EndLoop(H, H.next[HeadOf(l)], 0, H.size[l])

\* for (it = begin(); it != end(); ++it): k counts the increments; asserted
\* tells that operator++ met assert(node_ != nullptr) with a null node_
RECURSIVE IterLoop(_, _, _, _, _)
IterLoop(H, it, e, k, fuel) ==
    IF it = e \/ fuel = 0 THEN [it |-> it, k |-> k, asserted |-> FALSE]
    ELSE IF it = NULL THEN [it |-> NULL, k |-> k, asserted |-> TRUE]
         ELSE IterLoop(H, H.next[it], e, k + 1, fuel - 1)

\* one pass over the list from begin() to end()
IterRun(H, l) == IterLoop(H, Begin(H, l), EndRun(H, l).it, 0, MaxNodes + 1)

\* the nodes visited by  for (it = p; it != e; ++it), cut after fuel nodes
\* (more than the heap holds) and at a null pointer
RECURSIVE Trav(_, _, _, _)
Trav(H, p, e, fuel) ==
    IF p = e \/ p = NULL \/ fuel = 0 THEN <<>>
    ELSE <<p>> \o Trav(H, H.next[p], e, fuel - 1)

\* nodes and values of the range [begin(), end())
NodesOf(H, l) == Trav(H, Begin(H, l), End(H, l), MaxNodes + 1)
ValuesOf(H, l) == LET ns == NodesOf(H, l) IN [i \in 1..Len(ns) |-> H.val[ns[i]]]

\* the chain that hangs off the sentinel, followed to null
ChainOf(H, l) == Trav(H, Begin(H, l), NULL, MaxNodes + 1)
ChainValues(H, l) == LET ns == ChainOf(H, l) IN [i \in 1..Len(ns) |-> H.val[ns[i]]]

Range(s) == {s[i] : i \in 1..Len(s)}

\* GetSize(), IsEmpty()
GetSize(H, l) == H.size[l]
IsEmpty(H, l) == H.size[l] = 0

\* ---- methods, as functions of the state ----
Ok(H) == [h |-> H, thrown |-> FALSE, ret |-> NULL]
Ret(H, p) == [h |-> H, thrown |-> FALSE, ret |-> p]
Throw(H) == [h |-> H, thrown |-> TRUE, ret |-> NULL]

\* SingleLinkedList(): head_.next_node = nullptr, size_ = 0
DefaultCtor(H, l) ==
    [H EXCEPT !.next[HeadOf(l)] = NULL, !.size[l] = 0, !.live[l] = TRUE]

\* PushFront that links the node but forgets ++size_
PushFrontM_NoCount(H, l, v, a) ==
    IF a = NULL THEN Throw(H)
    ELSE LET H1 == NewNode(H, a, v, H.next[HeadOf(l)])
         IN  Ok([H1 EXCEPT !.next[HeadOf(l)] = a])

\* PushFront whose node is built with a null successor
PushFrontM_LoseTail(H, l, v, a) ==
    IF a = NULL THEN Throw(H)
    ELSE LET H1 == NewNode(H, a, v, NULL)
             H2 == [H1 EXCEPT !.next[HeadOf(l)] = a]
         IN  Ok([H2 EXCEPT !.size[l] = @ + 1])

\* void PushFront(const Type& value); a is what new returned
PushFrontM(H, l, v, a) ==
    IF a = NULL THEN Throw(H)
    ELSE LET H1 == NewNode(H, a, v, H.next[HeadOf(l)])
             H2 == [H1 EXCEPT !.next[HeadOf(l)] = a]
         IN  Ok([H2 EXCEPT !.size[l] = @ + 1])

\* void Clear() noexcept
RECURSIVE ClearLoop(_, _, _)
ClearLoop(H, l, fuel) ==
    IF H.next[HeadOf(l)] = NULL \/ fuel = 0 THEN H
    ELSE LET temp == H.next[H.next[HeadOf(l)]]
             H1 == DeleteNode(H, H.next[HeadOf(l)])
         IN  ClearLoop([H1 EXCEPT !.next[HeadOf(l)] = temp], l, fuel - 1)

\* Clear that frees the nodes but leaves size_ as it was
ClearM_KeepSize(H, l) == ClearLoop(H, l, MaxNodes + 1)

ClearM(H, l) ==
    LET H1 == ClearLoop(H, l, MaxNodes + 1) IN [H1 EXCEPT !.size[l] = 0]

\* ~SingleLinkedList(): Clear(), then the object is gone
Dtor(H, l) ==
    LET H1 == ClearM(H, l) IN [H1 EXCEPT !.live[l] = FALSE]

\* PopFront that moves the second element into the first node and frees the second
PopFrontM_Shift(H, l) ==
    LET first == H.next[HeadOf(l)]
    IN  IF first = NULL THEN H
        ELSE IF H.next[first] = NULL
        THEN LET H1 == DeleteNode(H, first)
                 H2 == [H1 EXCEPT !.next[HeadOf(l)] = NULL]
             IN  [H2 EXCEPT !.size[l] = @ - 1]
        ELSE LET second == H.next[first]
                 H1 == [H EXCEPT !.val[first] = H.val[second],
                                 !.next[first] = H.next[second]]
                 H2 == DeleteNode(H1, second)
             IN  [H2 EXCEPT !.size[l] = @ - 1]

\* PopFront that unlinks and frees the first node but keeps the count
PopFrontM_NoCount(H, l) ==
    IF H.next[HeadOf(l)] # NULL
    THEN LET node == H.next[H.next[HeadOf(l)]]
             H1 == DeleteNode(H, H.next[HeadOf(l)])
         IN  [H1 EXCEPT !.next[HeadOf(l)] = node]
    ELSE H

\* PopFront that counts down without looking whether there is a first node
PopFrontM_NoGuard(H, l) ==
    LET first == H.next[HeadOf(l)]
        node == IF first = NULL THEN NULL ELSE H.next[first]
        H1 == DeleteNode(H, first)
        H2 == [H1 EXCEPT !.next[HeadOf(l)] = node]
    IN  [H2 EXCEPT !.size[l] = @ - 1]

\* void PopFront() noexcept
PopFrontM(H, l) ==
    IF H.next[HeadOf(l)] # NULL
    THEN LET node == H.next[H.next[HeadOf(l)]]
             H1 == DeleteNode(H, H.next[HeadOf(l)])
             H2 == [H1 EXCEPT !.next[HeadOf(l)] = node]
         IN  [H2 EXCEPT !.size[l] = @ - 1]
    ELSE H

\* std::next(pos, 1).node_ : operator++ on a copy of pos
NextOf(H, pos) == H.next[pos]

\* InsertAfter whose node is built with a null successor
InsertAfterM_LoseTail(H, l, pos, v, a) ==
    IF a = NULL THEN Throw(H)
    ELSE LET H1 == NewNode(H, a, v, NULL)
             H2 == [H1 EXCEPT !.next[pos] = a]
         IN  Ret([H2 EXCEPT !.size[l] = @ + 1], a)

\* InsertAfter that counts the element before it allocates the node
InsertAfterM_CountFirst(H, l, pos, v, a) ==
    LET H0 == [H EXCEPT !.size[l] = @ + 1]
    IN  IF a = NULL THEN Throw(H0)
        ELSE LET H1 == NewNode(H0, a, v, NextOf(H0, pos))
             IN  Ret([H1 EXCEPT !.next[pos] = a], a)

\* Iterator InsertAfter(ConstIterator pos, const Type& value)
InsertAfterM(H, l, pos, v, a) ==
    IF a = NULL THEN Throw(H)
    ELSE LET new_node == a
             H1 == NewNode(H, new_node, v, NextOf(H, pos))
             H2 == [H1 EXCEPT !.next[pos] = new_node]
         IN  Ret([H2 EXCEPT !.size[l] = @ + 1], new_node)

\* EraseAfter that forgets to count the element down
EraseAfterM_NoCount(H, l, pos) ==
    LET node == H.next[NextOf(H, pos)]
        H1 == DeleteNode(H, NextOf(H, pos))
        H2 == [H1 EXCEPT !.next[pos] = node]
    IN  Ret(H2, node)

\* EraseAfter that relinks pos to the erased node instead of its successor
EraseAfterM_Stale(H, l, pos) ==
    LET node == NextOf(H, pos)
        H1 == DeleteNode(H, NextOf(H, pos))
        H2 == [H1 EXCEPT !.next[pos] = node]
    IN  Ret([H2 EXCEPT !.size[l] = @ - 1], node)

\* Iterator EraseAfter(ConstIterator pos) noexcept
EraseAfterM(H, l, pos) ==
    LET node == H.next[NextOf(H, pos)]
        H1 == DeleteNode(H, NextOf(H, pos))
        H2 == [H1 EXCEPT !.next[pos] = node]
    IN  Ret([H2 EXCEPT !.size[l] = @ - 1], node)

\* what a debug build of EraseAfter does with pos before it frees or relinks
\* anything: assert(pos.node_ != nullptr) stops a null pos; std::next(pos, 1)
\* increments a copy of pos, whose own assert(node_ != nullptr) sees the same
\* non-null pointer; .node_->next_node then reads through the successor,
\* which nothing has compared with null
EraseAfterChecks(H, pos) ==
    IF pos = NULL THEN {"assert"}
    ELSE IF NextOf(H, pos) = NULL THEN {"fault", "wild"}
         ELSE {"no"}

\* swap that exchanges the chains but not the counts
SwapM_HeadsOnly(H, l, o) ==
    [H EXCEPT !.next[HeadOf(l)] = H.next[HeadOf(o)],
              !.next[HeadOf(o)] = H.next[HeadOf(l)]]

\* void swap(SingleLinkedList& other) noexcept
SwapM(H, l, o) ==
    [H EXCEPT !.size[l] = H.size[o], !.size[o] = H.size[l],
              !.next[HeadOf(l)] = H.next[HeadOf(o)],
              !.next[HeadOf(o)] = H.next[HeadOf(l)]]

\* void swap(SingleLinkedList<Type>& lhs, SingleLinkedList<Type>& rhs) noexcept
SwapFree(H, lhs, rhs) == SwapM(H, lhs, rhs)

\* std::equal(first1, last1, first2, last2) over forward iterators: step both
\* ranges together, stop at the first mismatch, and accept only when both
\* ranges ran out at the same time
RECURSIVE StdEqual(_, _, _, _, _, _)
StdEqual(H, first1, last1, first2, last2, fuel) ==
    IF fuel = 0 \/ first1 = last1 \/ first2 = last2
    THEN first1 = last1 /\ first2 = last2
    ELSE IF H.val[first1] # H.val[first2]
         THEN FALSE
         ELSE StdEqual(H, H.next[first1], last1, H.next[first2], last2,
                       fuel - 1)

\* lexicographical_compare that does not count a strict prefix as less
RECURSIVE StdLexCompare_NoPrefix(_, _, _, _, _, _)
StdLexCompare_NoPrefix(H, first1, last1, first2, last2, fuel) ==
    IF fuel = 0 \/ first1 = last1 \/ first2 = last2
    THEN FALSE
    ELSE IF H.val[first1] < H.val[first2]
         THEN TRUE
         ELSE IF H.val[first2] < H.val[first1]
              THEN FALSE
              ELSE StdLexCompare_NoPrefix(H, H.next[first1], last1,
                                          H.next[first2], last2, fuel - 1)

\* std::lexicographical_compare(first1, last1, first2, last2): the first
\* position where the elements differ decides; when a range runs out first
\* the result is whether it was the first range alone
RECURSIVE StdLexCompare(_, _, _, _, _, _)
StdLexCompare(H, first1, last1, first2, last2, fuel) ==
    IF fuel = 0 \/ first1 = last1 \/ first2 = last2
    THEN first1 = last1 /\ first2 # last2
    ELSE IF H.val[first1] < H.val[first2]
         THEN TRUE
         ELSE IF H.val[first2] < H.val[first1]
              THEN FALSE
              ELSE StdLexCompare(H, H.next[first1], last1,
                                 H.next[first2], last2, fuel - 1)

\* bool operator==(const SingleLinkedList&, const SingleLinkedList&)
OpEq(H, lhs, rhs) ==
    StdEqual(H, Begin(H, lhs), End(H, lhs), Begin(H, rhs), End(H, rhs),
             MaxNodes + 1)

\* bool operator!=
OpNe(H, lhs, rhs) == ~OpEq(H, lhs, rhs)

\* bool operator<
OpLt(H, lhs, rhs) ==
    StdLexCompare(H, Begin(H, lhs), End(H, lhs), Begin(H, rhs), End(H, rhs),
                  MaxNodes + 1)

\* bool operator<=
OpLe(H, lhs, rhs) == OpEq(H, lhs, rhs) \/ OpLt(H, lhs, rhs)

\* bool operator>
OpGt(H, lhs, rhs) == OpLt(H, rhs, lhs)

\* operator>= that looks at less-than where greater-than is meant
OpGe_Less(H, lhs, rhs) == OpEq(H, lhs, rhs) \/ OpLt(H, lhs, rhs)

\* bool operator>=
OpGe(H, lhs, rhs) == OpEq(H, lhs, rhs) \/ OpGt(H, lhs, rhs)

\* a fill loop that links every further node in front of the chain
RECURSIVE FillLoop_Front(_, _, _, _, _, _)
FillLoop_Front(H, t, node, vals, addrs, i) ==
    IF i > Len(vals) THEN Ok(H)
    ELSE IF i > Len(addrs) THEN Throw(H)
    ELSE LET H1 == NewNode(H, addrs[i], vals[i], H.next[HeadOf(t)])
             H2 == [H1 EXCEPT !.next[HeadOf(t)] = addrs[i]]
             H3 == [H2 EXCEPT !.size[t] = @ + 1]
         IN  FillLoop_Front(H3, t, node, vals, addrs, i + 1)

\* the loop of FillSingleLinkedList: vals[i..] are still to be copied,
\* addrs are the addresses the successful `new`s return, in order; when
\* addrs runs out before vals does, that `new Node` throws
RECURSIVE FillLoop(_, _, _, _, _, _)
FillLoop(H, t, node, vals, addrs, i) ==
    IF i > Len(vals) THEN Ok(H)
    ELSE IF i > Len(addrs) THEN Throw(H)
    ELSE LET H1 == NewNode(H, addrs[i], vals[i], NULL)
             H2 == [H1 EXCEPT !.next[node] = addrs[i]]
             H3 == [H2 EXCEPT !.size[t] = @ + 1]
         IN  FillLoop(H3, t, addrs[i], vals, addrs, i + 1)

\* void FillSingleLinkedList(SingleLinkedList& temp, Container& container);
\* vals is what iterating container from begin() to end() reads
FillSingleLinkedList(H, t, vals, addrs) ==
    IF Len(addrs) = 0 THEN Throw(H)
    ELSE LET node == addrs[1]
             H1 == NewNode(H, node, vals[1], NULL)
             H2 == [H1 EXCEPT !.next[HeadOf(t)] = node]
             H3 == [H2 EXCEPT !.size[t] = @ + 1]
         IN  FillLoop(H3, t, node, vals, addrs, 2)

\* a filling constructor whose temporary is not destroyed when the fill throws
FillCtor_NoUnwind(H, l, t, nonempty, vals, addrs) ==
    LET H0 == DefaultCtor([H EXCEPT !.next[HeadOf(l)] = NULL, !.size[l] = 0], t)
        r == IF nonempty THEN FillSingleLinkedList(H0, t, vals, addrs) ELSE Ok(H0)
    IN  IF r.thrown THEN Throw([r.h EXCEPT !.live[t] = FALSE])
        ELSE LET H1 == SwapM(r.h, l, t)
                 H2 == Dtor(H1, t)
             IN  Ok([H2 EXCEPT !.live[l] = TRUE])

\* the body shared by both filling constructors: temp is built in slot t,
\* swapped into this (slot l) and destroyed; when the fill throws, temp is
\* destroyed by unwinding and this never comes to life
FillCtor(H, l, t, nonempty, vals, addrs) ==
    LET H0 == DefaultCtor([H EXCEPT !.next[HeadOf(l)] = NULL, !.size[l] = 0], t)
        r == IF nonempty THEN FillSingleLinkedList(H0, t, vals, addrs) ELSE Ok(H0)
    IN  IF r.thrown THEN Throw(Dtor(r.h, t))
        ELSE LET H1 == SwapM(r.h, l, t)
                 H2 == Dtor(H1, t)
             IN  Ok([H2 EXCEPT !.live[l] = TRUE])

\* SingleLinkedList(std::initializer_list<Type> values)
InitListCtor(H, l, t, values, addrs) ==
    FillCtor(H, l, t, Len(values) # 0, values, addrs)

\* a copy constructor that takes over the source's chain instead of copying it
CopyCtor_Shallow(H, l, t, other, addrs) ==
    Ok([H EXCEPT !.next[HeadOf(l)] = H.next[HeadOf(other)],
                 !.size[l] = H.size[other], !.live[l] = TRUE])

\* SingleLinkedList(const SingleLinkedList& other)
CopyCtor(H, l, t, other, addrs) ==
    FillCtor(H, l, t, ~IsEmpty(H, other), ValuesOf(H, other), addrs)

\* operator= that clears *this before it copies rhs into the temporary
CopyAssign_ClearFirst(H, l, rhs, addrs) ==
    LET H0 == ClearM(H, l)
        r == CopyCtor(H0, TempA, TempB, rhs, addrs)
    IN  IF r.thrown THEN Throw(r.h)
        ELSE LET H1 == SwapM(r.h, l, TempA) IN Ok(Dtor(H1, TempA))

\* operator= that empties *this and fills it in place, without a temporary
CopyAssign_InPlace(H, l, rhs, addrs) ==
    LET vals == ValuesOf(H, rhs)
        H0 == ClearM(H, l)
    IN  IF Len(vals) = 0 THEN Ok(H0)
        ELSE LET r == FillSingleLinkedList(H0, l, vals, addrs)
             IN  IF r.thrown THEN Throw(r.h) ELSE Ok(r.h)

\* SingleLinkedList& operator=(const SingleLinkedList& rhs)
CopyAssign(H, l, rhs, addrs) ==
    LET r == CopyCtor(H, TempA, TempB, rhs, addrs)
    IN  IF r.thrown THEN Throw(r.h)
        ELSE LET H1 == SwapM(r.h, l, TempA) IN Ok(Dtor(H1, TempA))

\* the addresses that up to n consecutive `new Node`s can return: every
\* run of k <= n distinct free addresses (k < n: the next `new` throws)
AllocRuns(H, n) ==
    LET free == Nodes \ H.alloc
    IN  {s \in UNION {[1..k -> free] : k \in 0..n} :
            \A i, j \in DOMAIN s : i # j => s[i] # s[j]}

\* the cursors the client may pass as pos: before_begin() or an element
Positions(H, l) == {HeadOf(l)} \cup Range(ChainOf(H, l))

\* initializer lists
RECURSIVE SeqsUpTo(_)
SeqsUpTo(n) == IF n = 0 THEN {<<>>} ELSE SeqsUpTo(n - 1) \cup [1..n -> Values]
InitLists == SeqsUpTo(MaxInitLen)

\* ---- actions ----
\* last: op, this (l), the other list (o), the arguments (pos, val, vals),
\* whether some `new` threw (failed) after k nodes were allocated, whether
\* the call ended in an exception (thrown) and the cursor it returned (ret)
NoOp == [op |-> "idle", l |-> 0, o |-> 0, pos |-> NULL, val |-> 0,
         vals |-> <<>>, failed |-> FALSE, k |-> 0, thrown |-> FALSE,
         ret |-> NULL, stop |-> "no",
         cmp |-> [eq |-> FALSE, ne |-> FALSE, lt |-> FALSE,
                  le |-> FALSE, gt |-> FALSE, ge |-> FALSE]]

\* pushed: the list and the values, oldest first, of the run of successful
\* PushFront calls that began on the empty list; any other operation ends it
NoRun == [l |-> 0, vals |-> <<>>]

\* the run that a successful PushFront(v) on l continues or begins
PushRun(l, v) ==
    IF Begin(Cur, l) = NULL THEN <<v>>
    ELSE IF pushed.l = l /\ pushed.vals # <<>> THEN Append(pushed.vals, v)
    ELSE <<>>

\* a call is made when the record of the previous one has been dropped; it
\* leaves the new program state and the record of what was called
Commit(H, lst) ==
    /\ last.op = "idle"
    /\ next_node' = H.next
    /\ value' = H.val
    /\ allocated' = H.alloc
    /\ size_' = H.size
    /\ live' = H.live
    /\ dfree' = H.dfree
    /\ last' = lst
    /\ pre' = Cur
    /\ pushed' = IF lst.op # "PushFront" THEN NoRun
                 ELSE IF lst.thrown THEN pushed
                 ELSE IF lst.vals = <<>> THEN NoRun
                 ELSE [l |-> lst.l, vals |-> lst.vals]

\* the client drops the record of the finished call; the program state stays
Forget ==
    /\ last.op # "idle"
    /\ last.stop = "no"
    /\ last' = NoOp
    /\ pre' = Cur
    /\ UNCHANGED <<next_node, value, allocated, size_, live, dfree, pushed>>

\* every client list object starts default-constructed
Init ==
    LET HI == [EmptyHeap EXCEPT !.live = [l \in ListIds |-> l \in Lists]]
    IN  /\ next_node = HI.next
        /\ value = HI.val
        /\ allocated = HI.alloc
        /\ size_ = HI.size
        /\ live = HI.live
        /\ dfree = FALSE
        /\ last = NoOp
        /\ pre = HI
        /\ pushed = NoRun

PushFront(l, v, a) ==
    /\ live[l]
    /\ LET r == PushFrontM(Cur, l, v, a)
       IN  Commit(r.h, [NoOp EXCEPT !.op = "PushFront", !.l = l, !.val = v,
                                    !.vals = IF r.thrown THEN <<>> ELSE PushRun(l, v),
                                    !.failed = (a = NULL),
                                    !.k = IF a = NULL THEN 0 ELSE 1,
                                    !.thrown = r.thrown])

PopFront(l) ==
    /\ live[l]
    /\ Commit(PopFrontM(Cur, l), [NoOp EXCEPT !.op = "PopFront", !.l = l])

Clear(l) ==
    /\ live[l]
    /\ Commit(ClearM(Cur, l), [NoOp EXCEPT !.op = "Clear", !.l = l])

InsertAfter(l, pos, v, a) ==
    /\ live[l]
    /\ pos \in Positions(Cur, l)
    /\ LET r == InsertAfterM(Cur, l, pos, v, a)
       IN  Commit(r.h, [NoOp EXCEPT !.op = "InsertAfter", !.l = l, !.pos = pos,
                                    !.val = v, !.failed = (a = NULL),
                                    !.k = IF a = NULL THEN 0 ELSE 1,
                                    !.thrown = r.thrown, !.ret = r.ret])

EraseAfter(l, pos) ==
    /\ live[l]
    /\ pos \in Positions(Cur, l)
    /\ NextOf(Cur, pos) # NULL
    /\ LET r == EraseAfterM(Cur, l, pos)
       IN  Commit(r.h, [NoOp EXCEPT !.op = "EraseAfter", !.l = l, !.pos = pos,
                                    !.ret = r.ret])

\* EraseAfter on a cursor that has no element after it: the call ends the
\* run, by the assertion ("assert") or in undefined behaviour, where the
\* read through null either faults or yields some word ("wild")
EraseAfterMisuse(l, pos) ==
    /\ live[l]
    /\ pos \in {NULL} \cup {p \in Positions(Cur, l) : NextOf(Cur, p) = NULL}
    /\ \E how \in EraseAfterChecks(Cur, pos) :
           Commit(Cur, [NoOp EXCEPT !.op = "EraseAfter misuse", !.l = l,
                                    !.pos = pos, !.stop = how])

Swap(l, o) ==
    /\ live[l] /\ live[o]
    /\ Commit(SwapM(Cur, l, o), [NoOp EXCEPT !.op = "swap", !.l = l, !.o = o])

SwapFreeCall(lhs, rhs) ==
    /\ live[lhs] /\ live[rhs]
    /\ Commit(SwapFree(Cur, lhs, rhs),
              [NoOp EXCEPT !.op = "swap()", !.l = lhs, !.o = rhs])

\* end(), cend(): k is the number of links the call followed
EndCall(l) ==
    /\ live[l]
    /\ LET r == EndRun(Cur, l)
       IN  Commit(Cur, [NoOp EXCEPT !.op = "end", !.l = l, !.k = r.links,
                                    !.failed = r.null, !.ret = r.it])

\* a client loop over the whole list: k increments, ending at cursor ret
Iterate(l) ==
    /\ live[l]
    /\ LET r == IterRun(Cur, l)
       IN  Commit(Cur, [NoOp EXCEPT !.op = "iterate", !.l = l, !.k = r.k,
                                    !.failed = r.asserted, !.ret = r.it])

\* the six comparison operators applied to one pair of lists
Compare(lhs, rhs) ==
    /\ live[lhs] /\ live[rhs]
    /\ Commit(Cur,
              [NoOp EXCEPT !.op = "compare", !.l = lhs, !.o = rhs,
                           !.cmp = [eq |-> OpEq(Cur, lhs, rhs),
                                    ne |-> OpNe(Cur, lhs, rhs),
                                    lt |-> OpLt(Cur, lhs, rhs),
                                    le |-> OpLe(Cur, lhs, rhs),
                                    gt |-> OpGt(Cur, lhs, rhs),
                                    ge |-> OpGe(Cur, lhs, rhs)]])

Destroy(l) ==
    /\ live[l]
    /\ Commit(Dtor(Cur, l), [NoOp EXCEPT !.op = "Destroy", !.l = l])

DefaultConstruct(l) ==
    /\ ~live[l]
    /\ Commit(DefaultCtor(Cur, l), [NoOp EXCEPT !.op = "DefaultCtor", !.l = l])

InitListConstruct(l, values, addrs) ==
    /\ ~live[l]
    /\ LET r == InitListCtor(Cur, l, TempB, values, addrs)
       IN  Commit(r.h, [NoOp EXCEPT !.op = "InitListCtor", !.l = l,
                                    !.vals = values,
                                    !.failed = (Len(addrs) < Len(values)),
                                    !.k = Len(addrs), !.thrown = r.thrown])

CopyConstruct(l, other, addrs) ==
    /\ ~live[l] /\ live[other]
    /\ LET r == CopyCtor(Cur, l, TempB, other, addrs)
       IN  Commit(r.h, [NoOp EXCEPT !.op = "CopyCtor", !.l = l, !.o = other,
                                    !.failed = (Len(addrs) < Len(ValuesOf(Cur, other))),
                                    !.k = Len(addrs), !.thrown = r.thrown])

Assign(l, rhs, addrs) ==
    /\ live[l] /\ live[rhs]
    /\ LET r == CopyAssign(Cur, l, rhs, addrs)
       IN  Commit(r.h, [NoOp EXCEPT !.op = "operator=", !.l = l, !.o = rhs,
                                    !.failed = (Len(addrs) < Len(ValuesOf(Cur, rhs))),
                                    !.k = Len(addrs), !.thrown = r.thrown])

\* no call is pending a look at its record
Idle == last.op = "idle"

Next ==
    \/ Idle /\ \E l \in Lists, v \in Values, a \in AllocChoices(Cur) : PushFront(l, v, a)
    \/ Idle /\ \E l \in Lists : PopFront(l)
    \/ Idle /\ \E l \in Lists : Clear(l)
    \/ Idle /\ \E l \in Lists, pos \in Addr, v \in Values, a \in AllocChoices(Cur) :
                   InsertAfter(l, pos, v, a)
    \/ Idle /\ \E l \in Lists, pos \in Addr : EraseAfter(l, pos)
    \/ Idle /\ \E l, o \in Lists : Swap(l, o)
    \/ Idle /\ \E lhs, rhs \in Lists : SwapFreeCall(lhs, rhs)
    \/ Idle /\ \E lhs, rhs \in Lists : Compare(lhs, rhs)
    \/ Idle /\ \E l \in Lists : EndCall(l)
    \/ Idle /\ \E l \in Lists : Iterate(l)
    \/ Idle /\ \E l \in Lists, pos \in Addr \cup {NULL} : EraseAfterMisuse(l, pos)
    \/ Idle /\ \E l \in Lists : Destroy(l)
    \/ Idle /\ \E l \in Lists : DefaultConstruct(l)
    \/ Idle /\ \E l \in Lists, values \in InitLists :
                   \E addrs \in AllocRuns(Cur, Len(values)) :
                       InitListConstruct(l, values, addrs)
    \/ Idle /\ \E l, other \in Lists :
                   \E addrs \in AllocRuns(Cur, Len(ValuesOf(Cur, other))) :
                       CopyConstruct(l, other, addrs)
    \/ Idle /\ \E l, rhs \in Lists :
                   \E addrs \in AllocRuns(Cur, Len(ValuesOf(Cur, rhs))) :
                       Assign(l, rhs, addrs)
    \/ Forget

Spec == Init /\ [][Next]_vars

\* ---- views used by the properties ----
Distinct(s) == \A i, j \in 1..Len(s) : i # j => s[i] # s[j]
LiveLists == {l \in Lists : live[l]}

\* the chain of l is acyclic, ends in null and has exactly size_ nodes
WellFormed(H, l) ==
    LET ch == ChainOf(H, l)
    IN  /\ Len(ch) <= MaxNodes
        /\ Distinct(ch)
        /\ Len(ch) = H.size[l]
        /\ \A i \in 0..(Len(ch) - 1) : Walk(H, Begin(H, l), i) = ch[i + 1]
        /\ Walk(H, Begin(H, l), H.size[l]) = NULL

\* list l has the same nodes, in the same order, with the same values and
\* the same size_ as before the last operation
SameAsBefore(l) ==
    /\ live[l] = pre.live[l]
    /\ ChainOf(Cur, l) = ChainOf(pre, l)
    /\ ChainValues(Cur, l) = ChainValues(pre, l)
    /\ size_[l] = pre.size[l]

\* C1: every live list has size_ equal to the number of nodes on the chain
\* from head_.next_node, and that chain is acyclic and reaches null after
\* exactly size_ steps, whatever operations ran and whichever allocations failed.
C1_SizeMatchesChain == \A l \in LiveLists : WellFormed(Cur, l)

\* a copy assignment that failed part-way has just run on a list of two elements
C1_Witness ==
    /\ last.op = "operator=" /\ last.thrown /\ last.k = 1
    /\ size_[last.o] = 2 /\ last.l # last.o

\* C2: when a `new Node` fails during target = source, the exception
\* propagates and the target keeps its nodes, values and size_, and so does
\* the source.
C2_AssignStrongGuarantee ==
    (last.op = "operator=" /\ last.failed) =>
        /\ last.thrown
        /\ SameAsBefore(last.l)
        /\ SameAsBefore(last.o)
        /\ allocated = pre.alloc

\* an assignment to a non-empty target failed at the second node of the source
C2_Witness ==
    /\ last.op = "operator=" /\ last.failed /\ last.thrown
    /\ last.l # last.o
    /\ last.k = 1
    /\ pre.size[last.l] >= 1 /\ pre.size[last.o] >= 2

\* C3: when the `new Node` of PushFront or InsertAfter fails, the exception
\* propagates and no link, value, size_ or allocation has changed.
C3_InsertFailureLeavesList ==
    (last.op \in {"PushFront", "InsertAfter"} /\ last.failed) =>
        /\ last.thrown
        /\ next_node = pre.next
        /\ value = pre.val
        /\ size_ = pre.size
        /\ allocated = pre.alloc
        /\ live = pre.live

\* a failed InsertAfter behind an element of a non-empty list
C3_Witness ==
    /\ last.op = "InsertAfter" /\ last.failed /\ last.thrown
    /\ last.pos \in Nodes /\ size_[last.l] >= 2

\* the addresses whose next_node is p, among sentinels of live lists and live nodes
Preds(p) == {a \in {HeadOf(l) : l \in LiveLists} \cup allocated : next_node[a] = p}

\* C4: between operations every allocated node is on the chain of exactly
\* one live list and has exactly one predecessor; no node is leaked, shared,
\* freed twice or reachable after it was freed, and no destroyed list or
\* temporary still holds a node.
C4_ExclusiveOwnership ==
    /\ allocated = UNION {Range(ChainOf(Cur, l)) : l \in LiveLists}
    /\ \A l1, l2 \in LiveLists :
           l1 # l2 => Range(ChainOf(Cur, l1)) \cap Range(ChainOf(Cur, l2)) = {}
    /\ \A n \in allocated : Cardinality(Preds(n)) = 1
    /\ \A l \in ListIds \ LiveLists : next_node[HeadOf(l)] = NULL /\ size_[l] = 0
    /\ \A l \in ListIds \ Lists : ~live[l]
    /\ ~dfree

\* a copy whose fill failed after nodes had been allocated for the temporary
C4_Witness ==
    /\ last.op \in {"operator=", "CopyCtor"} /\ last.thrown /\ last.k >= 1
    /\ allocated # {}

\* the position of cursor pos in list l: 0 for before_begin(), i for the i-th element
IndexOf(H, l, pos) ==
    IF pos = HeadOf(l) THEN 0
    ELSE CHOOSE i \in 1..Len(ChainOf(H, l)) : ChainOf(H, l)[i] = pos

InsertAt(s, k, x) == SubSeq(s, 1, k) \o <<x>> \o SubSeq(s, k + 1, Len(s))
RemoveAt(s, i) == SubSeq(s, 1, i - 1) \o SubSeq(s, i + 1, Len(s))
Reverse(s) == [i \in 1..Len(s) |-> s[Len(s) + 1 - i]]

\* C5: a successful InsertAfter(pos, x) with pos at position k (0 for the
\* sentinel) turns e1..en into e1..ek, x, e(k+1)..en with size n+1, keeps
\* every other node and value in place, and returns a cursor to the new
\* node, which is the node right after pos.
C5_InsertAfterSplices ==
    (last.op = "InsertAfter" /\ ~last.failed) =>
        LET l == last.l
            k == IndexOf(pre, l, last.pos)
        IN  /\ ~last.thrown
            /\ ChainValues(Cur, l) = InsertAt(ChainValues(pre, l), k, last.val)
            /\ ValuesOf(Cur, l) = InsertAt(ValuesOf(pre, l), k, last.val)
            /\ ChainOf(Cur, l) = InsertAt(ChainOf(pre, l), k, last.ret)
            /\ GetSize(Cur, l) = Len(ChainOf(pre, l)) + 1
            /\ last.ret \in allocated \ pre.alloc
            /\ last.ret = next_node[last.pos]
            /\ value[last.ret] = last.val

\* an insertion behind an element that has a successor
C5_Witness ==
    /\ last.op = "InsertAfter" /\ ~last.failed /\ ~last.thrown
    /\ last.pos \in Nodes
    /\ next_node[last.ret] # NULL

\* C6: EraseAfter(pos) with pos at position k < n removes exactly element
\* k+1, leaves e1..ek, e(k+2)..en with size n-1 on the same nodes, and
\* returns a cursor to the node now after pos, which is end() when the
\* erased element was the last one.
C6_EraseAfterRemovesNext ==
    (last.op = "EraseAfter") =>
        LET l == last.l
            k == IndexOf(pre, l, last.pos)
            n == Len(ChainOf(pre, l))
        IN  /\ k < n
            /\ ChainValues(Cur, l) = RemoveAt(ChainValues(pre, l), k + 1)
            /\ ValuesOf(Cur, l) = RemoveAt(ValuesOf(pre, l), k + 1)
            /\ ChainOf(Cur, l) = RemoveAt(ChainOf(pre, l), k + 1)
            /\ GetSize(Cur, l) = n - 1
            /\ ChainOf(pre, l)[k + 1] \notin allocated
            /\ last.ret = next_node[last.pos]
            /\ last.ret = IF k + 1 = n THEN End(Cur, l) ELSE ChainOf(pre, l)[k + 2]
            /\ (k + 1 = n) => last.ret = NULL

\* an element with a successor was erased from behind another element
C6_Witness ==
    /\ last.op = "EraseAfter"
    /\ last.pos \in Nodes
    /\ last.ret # NULL

\* the node that the last operation removed from the chain, if any
Removed ==
    IF last.op = "PopFront" THEN {Begin(pre, last.l)} \ {NULL}
    ELSE IF last.op = "EraseAfter" THEN {pre.next[last.pos]}
    ELSE {}

\* C7: across PushFront, PopFront, InsertAfter and EraseAfter a cursor to
\* any node other than the removed one still references a live node with
\* the same value on the same list; only the removed node is freed; and
\* the sentinel that before_begin() references stays in place across these
\* operations and across Clear.
C7_CursorStability ==
    /\ (last.op \in {"PushFront", "PopFront", "InsertAfter", "EraseAfter"}) =>
           /\ \A c \in pre.alloc \ Removed :
                  /\ c \in allocated
                  /\ value[c] = pre.val[c]
                  /\ \A l \in Lists : c \in Range(ChainOf(pre, l)) =>
                                           c \in Range(ChainOf(Cur, l))
           /\ \A c \in Removed : c \notin allocated
    /\ (last.op \in {"PushFront", "PopFront", "InsertAfter", "EraseAfter", "Clear"}) =>
           \A l \in Lists : pre.live[l] =>
               /\ live[l]
               /\ next_node[HeadOf(l)] \in allocated \cup {NULL}

\* PopFront removed the first of at least two elements
C7_Witness ==
    /\ last.op = "PopFront"
    /\ Removed # {}
    /\ size_[last.l] >= 1

\* C8: a successful copy construction or copy assignment gives the target
\* the source's values and size on nodes of its own, and afterwards
\* PushFront, PopFront, InsertAfter, EraseAfter, Clear and destruction of
\* one list leave every other list's nodes, values and size unchanged.
C8_CopyIndependence ==
    /\ (last.op \in {"CopyCtor", "operator="} /\ ~last.failed) =>
           /\ ~last.thrown
           /\ live[last.l]
           /\ ValuesOf(Cur, last.l) = ValuesOf(pre, last.o)
           /\ ChainValues(Cur, last.l) = ChainValues(pre, last.o)
           /\ GetSize(Cur, last.l) = pre.size[last.o]
           /\ Range(ChainOf(Cur, last.l)) \cap pre.alloc = {}
           /\ last.l # last.o =>
                  /\ Range(ChainOf(Cur, last.l)) \cap Range(ChainOf(Cur, last.o)) = {}
                  /\ SameAsBefore(last.o)
    /\ (last.op \in {"PushFront", "PopFront", "InsertAfter", "EraseAfter",
                      "Clear", "Destroy"}) =>
           \A o \in Lists \ {last.l} :
               /\ SameAsBefore(o)
               /\ Range(ChainOf(Cur, o)) \subseteq allocated

\* a list of two different values has just been copied into another list
C8_Witness ==
    /\ last.op \in {"CopyCtor", "operator="} /\ ~last.failed /\ ~last.thrown
    /\ last.l # last.o
    /\ size_[last.o] = 2
    /\ ValuesOf(Cur, last.o)[1] # ValuesOf(Cur, last.o)[2]

\* C9: a successful PushFront(x) on a list with sequence S yields x followed
\* by S with size |S|+1; after N successful PushFront calls v1..vN in a row
\* on an empty list the traversal from begin() to end() is vN..v1 and
\* GetSize() is N (N = 0: a default-constructed list is empty).
C9_PushFrontPrepends ==
    /\ (last.op = "PushFront" /\ ~last.failed) =>
           /\ ~last.thrown
           /\ ValuesOf(Cur, last.l) = <<last.val>> \o ValuesOf(pre, last.l)
           /\ GetSize(Cur, last.l) = Len(ValuesOf(pre, last.l)) + 1
           /\ last.vals # <<>> =>
                  /\ ValuesOf(Cur, last.l) = Reverse(last.vals)
                  /\ GetSize(Cur, last.l) = Len(last.vals)
    /\ (last.op = "DefaultCtor") =>
           ValuesOf(Cur, last.l) = <<>> /\ GetSize(Cur, last.l) = 0

\* three values, not all equal, were pushed in a row on an empty list
C9_Witness ==
    /\ last.op = "PushFront" /\ ~last.thrown
    /\ Len(last.vals) = 3
    /\ last.vals[1] # last.vals[3]

\* C10: a list successfully constructed from the value sequence S has
\* GetSize() = |S| and its traversal from begin() to end() is S, in order.
C10_InitListRoundTrip ==
    (last.op = "InitListCtor" /\ ~last.failed) =>
        /\ ~last.thrown
        /\ live[last.l]
        /\ GetSize(Cur, last.l) = Len(last.vals)
        /\ ValuesOf(Cur, last.l) = last.vals

\* a list was constructed from three values, the first two different
C10_Witness ==
    /\ last.op = "InitListCtor" /\ ~last.failed /\ ~last.thrown
    /\ Len(last.vals) = 3
    /\ last.vals[1] # last.vals[2]

\* C11: PopFront on an empty list changes nothing and size_ stays 0;
\* PopFront on e1..en (n >= 1) frees exactly the first node and leaves
\* e2..en on their nodes with size n-1.
C11_PopFrontRemovesFirst ==
    /\ \A l \in LiveLists : size_[l] >= 0
    /\ (last.op = "PopFront") =>
           LET l == last.l
               ch == ChainOf(pre, l)
           IN  IF ch = <<>>
               THEN /\ next_node = pre.next /\ value = pre.val
                    /\ size_ = pre.size /\ allocated = pre.alloc
                    /\ size_[l] = 0
               ELSE /\ ChainOf(Cur, l) = Tail(ch)
                    /\ ValuesOf(Cur, l) = Tail(ValuesOf(pre, l))
                    /\ GetSize(Cur, l) = Len(ch) - 1
                    /\ allocated = pre.alloc \ {ch[1]}
                    /\ \A o \in Lists \ {l} : SameAsBefore(o)

\* PopFront was called on an empty list
C11_Witness ==
    /\ last.op = "PopFront"
    /\ pre.size[last.l] = 0 /\ Begin(pre, last.l) = NULL
    /\ allocated # {}

\* C12: Clear frees every node of the list and leaves size_ 0, a null
\* head_.next_node and IsEmpty() true on a list that is still alive; on an
\* empty list it changes nothing, and a second Clear changes nothing more.
C12_ClearEmpties ==
    (last.op = "Clear") =>
        LET l == last.l
            ch == ChainOf(pre, l)
        IN  /\ live[l]
            /\ size_[l] = 0 /\ Begin(Cur, l) = NULL /\ IsEmpty(Cur, l)
            /\ ValuesOf(Cur, l) = <<>>
            /\ allocated = pre.alloc \ Range(ch)
            /\ \A o \in Lists \ {l} : SameAsBefore(o)
            /\ ch = <<>> => (/\ next_node = pre.next /\ value = pre.val
                             /\ size_ = pre.size /\ allocated = pre.alloc)
            /\ ClearM(Cur, l) = Cur

\* Clear was called on a list of at least two elements while another list held nodes
C12_Witness ==
    /\ last.op = "Clear"
    /\ pre.size[last.l] >= 2
    /\ allocated # {}

\* C13: A.swap(B) and swap(A, B) never fail and exchange the contents: A
\* gets B's former nodes, values and size and B gets A's; nothing is
\* allocated, freed or overwritten, and a second swap restores both lists.
C13_SwapExchanges ==
    (last.op \in {"swap", "swap()"}) =>
        LET a == last.l
            b == last.o
            back == SwapM(Cur, a, b)
        IN  /\ ~last.thrown /\ ~last.failed
            /\ ChainOf(Cur, a) = ChainOf(pre, b)
            /\ ChainOf(Cur, b) = ChainOf(pre, a)
            /\ ValuesOf(Cur, a) = ValuesOf(pre, b)
            /\ ValuesOf(Cur, b) = ValuesOf(pre, a)
            /\ GetSize(Cur, a) = pre.size[b]
            /\ GetSize(Cur, b) = pre.size[a]
            /\ allocated = pre.alloc
            /\ value = pre.val
            /\ \A n \in Nodes : next_node[n] = pre.next[n]
            /\ live = pre.live
            /\ \A o \in Lists \ {a, b} : SameAsBefore(o)
            /\ back.next = pre.next /\ back.size = pre.size
            /\ back.val = pre.val /\ back.alloc = pre.alloc

\* two different lists of different, non-zero lengths were swapped
C13_Witness ==
    /\ last.op \in {"swap", "swap()"}
    /\ last.l # last.o
    /\ size_[last.l] >= 1 /\ size_[last.o] >= 1
    /\ size_[last.l] # size_[last.o]

\* the sequences agree on their first n elements
SamePrefix(A, B, n) == \A j \in 1..n : A[j] = B[j]

\* the lexicographic order of two sequences of values
LexLess(A, B) ==
    \/ Len(A) < Len(B) /\ SamePrefix(A, B, Len(A))
    \/ \E i \in 1..Len(A) :
           /\ i <= Len(B)
           /\ SamePrefix(A, B, i - 1)
           /\ A[i] < B[i]

\* C14: operator== is true exactly when the two lists have the same length
\* and the same elements in order; operator< is the lexicographic order:
\* true exactly when the left list is a strict prefix of the right one or
\* holds the smaller element at the first index where they differ.
C14_EqualAndLess ==
    (last.op = "compare") =>
        LET A == ValuesOf(Cur, last.l)
            B == ValuesOf(Cur, last.o)
        IN  /\ last.cmp.eq <=> (Len(A) = Len(B) /\ SamePrefix(A, B, Len(A)))
            /\ last.cmp.lt <=> LexLess(A, B)
            /\ next_node = pre.next /\ value = pre.val
            /\ size_ = pre.size /\ allocated = pre.alloc

\* two lists that agree on the first element and differ in the second were
\* compared and the left one was less; the right one has a strict prefix too
C14_Witness ==
    /\ last.op = "compare"
    /\ last.l # last.o
    /\ size_[last.l] = 2 /\ size_[last.o] = 2
    /\ ValuesOf(Cur, last.l)[1] = ValuesOf(Cur, last.o)[1]
    /\ ValuesOf(Cur, last.l)[2] < ValuesOf(Cur, last.o)[2]
    /\ last.cmp.lt /\ ~last.cmp.eq

\* C19: the derived operators agree with the two primitives: A != B iff not
\* A == B; A > B iff B < A; A <= B iff not B < A; A >= B iff not A < B; and
\* exactly one of A < B, A == B, A > B holds.
C19_DerivedOperators ==
    (last.op = "compare") =>
        LET A == last.l
            B == last.o
            c == last.cmp
            n == (IF c.lt THEN 1 ELSE 0) + (IF c.eq THEN 1 ELSE 0)
                     + (IF c.gt THEN 1 ELSE 0)
        IN  /\ c.eq = OpEq(Cur, A, B) /\ c.lt = OpLt(Cur, A, B)
            /\ c.ne <=> ~c.eq
            /\ c.gt <=> OpLt(Cur, B, A)
            /\ c.le <=> ~OpLt(Cur, B, A)
            /\ c.ge <=> ~c.lt
            /\ n = 1

\* two different lists were compared and the left one was the greater
C19_Witness ==
    /\ last.op = "compare"
    /\ last.l # last.o
    /\ size_[last.l] >= 1 /\ size_[last.o] >= 1
    /\ last.cmp.gt /\ last.cmp.ge /\ last.cmp.ne /\ ~last.cmp.le

\* C15: end(), cend() and the const end() return in a number of steps that
\* does not depend on the size of the list: they follow no next_node link of
\* the chain to compute their result.
C15_EndFollowsNoLink ==
    (last.op = "end") => last.k = 0

\* C16: in a debug build every violation of EraseAfter's precondition is
\* stopped by an assertion before any node is read through, freed or
\* relinked, both when pos is end() or an unset cursor and when pos is a
\* node without a successor (the last element, the sentinel of an empty list).
C16_AssertionsCatchMisuse ==
    (last.op = "EraseAfter misuse") => last.stop = "assert"

\* C17: in every reachable state of a list the size_-step walk of end() never
\* reads through a null link and ends at the null cursor; so begin() == end()
\* iff GetSize() == 0 iff head_.next_node is null iff IsEmpty(), and a cursor
\* incremented from begin() reaches end() after exactly GetSize() increments
\* without tripping the assertion of operator++.
C17_EndWalkIsSafe ==
    /\ \A l \in LiveLists :
           LET e == EndRun(Cur, l)
               r == IterRun(Cur, l)
           IN  /\ ~e.null
               /\ e.it = NULL
               /\ e.links = GetSize(Cur, l)
               /\ (Begin(Cur, l) = e.it) <=> (GetSize(Cur, l) = 0)
               /\ (GetSize(Cur, l) = 0) <=> (next_node[HeadOf(l)] = NULL)
               /\ (next_node[HeadOf(l)] = NULL) <=> IsEmpty(Cur, l)
               /\ ~r.asserted
               /\ r.it = e.it
               /\ r.k = GetSize(Cur, l)
    /\ (last.op = "end") => ~last.failed /\ last.ret = NULL
    /\ (last.op = "iterate") =>
           /\ ~last.failed
           /\ last.k = GetSize(Cur, last.l)
           /\ last.ret = EndRun(Cur, last.l).it

\* a loop ran from begin() to end() over a list of two or more elements
C17_Witness ==
    /\ last.op = "iterate"
    /\ size_[last.l] >= 2
    /\ last.k = size_[last.l]
    /\ last.ret = NULL
    /\ Cardinality(allocated) >= 2

\* the sentinel cursor of list l
before_begin(l) == HeadOf(l)

\* C18: the front operations are the sentinel case of the positional ones:
\* InsertAfter(before_begin(), x) leaves the same sequence and size as
\* PushFront(x) and returns begin(); on a non-empty list
\* EraseAfter(before_begin()) leaves the same sequence and size as PopFront()
\* and returns the new begin().
C18_FrontIsSentinelCase ==
    /\ (last.op = "InsertAfter" /\ last.pos = before_begin(last.l)) =>
           LET l == last.l
               a == IF last.failed THEN NULL ELSE last.ret
               p == PushFrontM(pre, l, last.val, a)
           IN  /\ p.thrown = last.thrown
               /\ ValuesOf(Cur, l) = ValuesOf(p.h, l)
               /\ ChainValues(Cur, l) = ChainValues(p.h, l)
               /\ GetSize(Cur, l) = GetSize(p.h, l)
               /\ allocated = p.h.alloc
               /\ ~last.thrown => last.ret = Begin(Cur, l)
    /\ (last.op = "PushFront") =>
           LET l == last.l
               a == IF last.failed THEN NULL ELSE Begin(Cur, l)
               i == InsertAfterM(pre, l, before_begin(l), last.val, a)
           IN  /\ i.thrown = last.thrown
               /\ ValuesOf(Cur, l) = ValuesOf(i.h, l)
               /\ GetSize(Cur, l) = GetSize(i.h, l)
               /\ ~i.thrown => i.ret = Begin(Cur, l)
    /\ (last.op = "EraseAfter" /\ last.pos = before_begin(last.l)) =>
           LET l == last.l
               p == PopFrontM(pre, l)
           IN  /\ pre.size[l] > 0
               /\ ValuesOf(Cur, l) = ValuesOf(p, l)
               /\ ChainValues(Cur, l) = ChainValues(p, l)
               /\ GetSize(Cur, l) = GetSize(p, l)
               /\ allocated = p.alloc
               /\ last.ret = Begin(Cur, l)
    /\ (last.op = "PopFront" /\ pre.size[last.l] > 0) =>
           LET l == last.l
               e == EraseAfterM(pre, l, before_begin(l))
           IN  /\ ValuesOf(Cur, l) = ValuesOf(e.h, l)
               /\ GetSize(Cur, l) = GetSize(e.h, l)
               /\ e.ret = Begin(Cur, l)

\* the first of several elements was erased through the sentinel cursor
C18_Witness ==
    /\ last.op = "EraseAfter"
    /\ last.pos = before_begin(last.l)
    /\ last.ret # NULL
    /\ last.ret = Begin(Cur, last.l)
    /\ size_[last.l] >= 1

\* C20: the self-assignment A = A leaves A's element sequence and size
\* unchanged when it succeeds and leaves A entirely untouched when an
\* allocation fails during it; either way no node is leaked and no freed
\* node stays reachable from A.
C20_SelfAssignment ==
    (last.op = "operator=" /\ last.l = last.o) =>
        LET A == last.l
        IN  /\ live[A]
            /\ ~last.failed =>
                   /\ ~last.thrown
                   /\ ValuesOf(Cur, A) = ValuesOf(pre, A)
                   /\ ChainValues(Cur, A) = ChainValues(pre, A)
                   /\ GetSize(Cur, A) = pre.size[A]
            /\ last.failed =>
                   /\ last.thrown
                   /\ SameAsBefore(A)
                   /\ next_node = pre.next
                   /\ value = pre.val
                   /\ size_ = pre.size
                   /\ allocated = pre.alloc
            /\ Range(ChainOf(Cur, A)) \subseteq allocated
            /\ Len(ChainOf(Cur, A)) = size_[A]
            /\ allocated = UNION {Range(ChainOf(Cur, l)) : l \in LiveLists}
            /\ Cardinality(allocated) = Cardinality(pre.alloc)
            /\ \A t \in {TempA, TempB} : ~live[t] /\ next_node[HeadOf(t)] = NULL
            /\ ~dfree

\* a list of two different values was assigned to itself and the copy went
\* through
C20_Witness ==
    /\ last.op = "operator=" /\ last.l = last.o
    /\ ~last.failed /\ ~last.thrown
    /\ size_[last.l] = 2
    /\ ValuesOf(Cur, last.l)[1] # ValuesOf(Cur, last.l)[2]
    /\ Range(ChainOf(Cur, last.l)) \cap pre.alloc = {}

\* a self-assignment of a two-element list failed at its second node
C20_FailureWitness ==
    /\ last.op = "operator=" /\ last.l = last.o
    /\ last.failed /\ last.k = 1
    /\ size_[last.l] = 2

====
